---------------------------- MODULE Spec2Model ----------------------------
(***************************************************************************)
(* Model of the qgis-docker repository:                                    *)
(*   - the validation harness   workspace/tests/test_all.py                *)
(*     (TestResults aggregator, seven check routines, main),               *)
(*   - the validation entry point   scripts/validate_environment.py,       *)
(*   - the bootstrapper   setup.py (main and its __main__ block),          *)
(*   - the container entry point, as checked in (scripts/startup.py) and   *)
(*     as setup.py generates it (the startup_py template).                 *)
(* One process runs per behaviour; prog says which one.  prog = "agg" is a *)
(* client that drives a fresh TestResults with arbitrary add_result calls  *)
(* and then asks for the summary.                                          *)
(***************************************************************************)
EXTENDS Integers, Sequences, FiniteSets, TLC

VARIABLES
    prog,        \* which program this behaviour runs
    pc,          \* position of the process in its program
    env,         \* the environment the probes look at (fact -> outcome)
    results,     \* the TestResults object (tests_run, tests_passed, tests_failed, failures)
    history,     \* the add_result calls made so far, in call order
    summary,     \* outcome of print_summary: "none", "true", "false" or "raised"
    last,        \* what the check routine that ran last did
    report,      \* the report files on disk: <<>> while a file does not exist,
                 \* else <<content>>
    exit_code,   \* the process exit code, meaningful once pc = "exit"
    quick,       \* validate_environment.py: the --quick flag
    stdout,      \* validate_environment.py: the [OK]/[ERROR] lines printed
    fs,          \* setup.py: the entries of the target directory
    dir0,        \* setup.py: the entries the directory had when this run began
    existing_files, \* setup.py: main's existing_files
    response,    \* setup.py: main's response (the lower-cased answer)
    log,         \* setup.py: the prompts answered, paths written and
                 \* subprocesses started by this run, in order
    docker_available, \* setup.py: main's docker_available
    run,         \* number of the run of the program on this directory
    argv,        \* startup.py: the trailing arguments (sys.argv[1:])
    child        \* startup.py: <<>>, or <<returncode>> of the finished subprocess

vars == <<prog, pc, env, results, history, summary, last, report, exit_code,
          quick, stdout, fs, dir0, existing_files, response, log,
          docker_available, run, argv, child>>

---------------------------------------------------------------------------
(* Bounds of the model *)

\* add_result calls the aggregator client makes at most
MaxCalls == 3
\* facts of the environment that deviate from a healthy installation at most
MaxFaults == 2
\* bootstrap runs on one target directory at most
MaxRuns == 2

---------------------------------------------------------------------------
(* Small helpers *)

RECURSIVE SeqToSet(_)
SeqToSet(s) == IF s = <<>> THEN {} ELSE {Head(s)} \cup SeqToSet(Tail(s))

---------------------------------------------------------------------------
(* TestResults: test_all.py lines 14-48 *)

TestResults ==
    [tests_run |-> 0, tests_passed |-> 0, tests_failed |-> 0, failures |-> <<>>]

Call(test_name, passed, message) ==
    [test |-> test_name, passed |-> passed, message |-> message]

\* a mutation: a failing result is counted as run but never as failed
add_result_uncounted(R, test_name, passed, message) ==
    IF passed
    THEN [R EXCEPT !.tests_run = @ + 1, !.tests_passed = @ + 1]
    ELSE [R EXCEPT !.tests_run = @ + 1,
                   !.failures = Append(@, [test |-> test_name, message |-> message])]

\* a mutation: a failure whose name is already listed is not listed again
add_result_dedup(R, test_name, passed, message) ==
    IF passed
    THEN [R EXCEPT !.tests_run = @ + 1, !.tests_passed = @ + 1]
    ELSE [R EXCEPT !.tests_run = @ + 1, !.tests_failed = @ + 1,
                   !.failures =
                       IF \E i \in DOMAIN @ : @[i].test = test_name
                       THEN @
                       ELSE Append(@, [test |-> test_name, message |-> message])]

\* a mutation: a failure is put at the front of the failures list
add_result_prepend(R, test_name, passed, message) ==
    IF passed
    THEN [R EXCEPT !.tests_run = @ + 1, !.tests_passed = @ + 1]
    ELSE [R EXCEPT !.tests_run = @ + 1, !.tests_failed = @ + 1,
                   !.failures = <<[test |-> test_name, message |-> message]>> \o @]

add_result(R, test_name, passed, message) ==
    IF passed
    THEN [R EXCEPT !.tests_run = @ + 1, !.tests_passed = @ + 1]
    ELSE [R EXCEPT !.tests_run = @ + 1, !.tests_failed = @ + 1,
                   !.failures = Append(@, [test |-> test_name, message |-> message])]

RECURSIVE add_results(_, _)
add_results(R, calls) ==
    IF calls = <<>> THEN R
    ELSE add_results(add_result(R, Head(calls).test, Head(calls).passed,
                                Head(calls).message),
                     Tail(calls))

\* passed/tests_run*100 printed with one decimal (":.1f"), in tenths of a
\* percent; the division raises ZeroDivisionError when tests_run = 0
SuccessRate(R) == (2000 * R.tests_passed + R.tests_run) \div (2 * R.tests_run)

\* the value print_summary returns, "raised" when line 40 divides by zero
print_summary(R) ==
    IF R.tests_run = 0 THEN "raised"
    ELSE IF R.tests_failed = 0 THEN "true" ELSE "false"


---------------------------------------------------------------------------
(* The environment the probes look at.  Every fact is "ok" in a healthy   *)
(* installation; Dev(f) are the other outcomes the probe of f can meet.   *)

required_libs ==
    <<"numpy", "pandas", "gdal", "matplotlib", "scipy", "rasterio", "shapely", "fiona">>

test_algs == <<"native:buffer", "gdal:hillshade", "qgis:creategrid">>

essential == <<"prov:ogr", "prov:gdal", "prov:memory", "prov:WFS", "prov:WMS">>

env_vars == <<"QGIS_PREFIX_PATH", "PYTHONPATH">>

dirs == <<"/workspace", "/logs", "/config">>

packages == <<"numpy", "scipy", "pandas", "rasterio", "geopandas">>

\* facts read by an import statement: the module loads, is missing, or
\* fails while loading with an error that is no ImportError
ImportFacts ==
    {"qgis", "pyqtgraph", "spectral"} \cup SeqToSet(required_libs) \cup SeqToSet(packages)

\* calls into QGIS that may raise: QgsApplication()/initQgis() and exitQgis()
\* of the first, fourth and seventh routine
RaiseFacts == {"init1", "exit1", "init4", "exit4", "init7", "exit7"}

HarnessFacts ==
    {"qgis", "version", "enmap_files", "enmap_count", "pyqtgraph", "spectral",
     "enmapbox", "alg_count", "/workspace", "ws_write", "report_write"}
    \cup RaiseFacts \cup SeqToSet(required_libs) \cup SeqToSet(test_algs)
    \cup SeqToSet(essential) \cup SeqToSet(env_vars)

ValidateFacts == {"qgis"} \cup SeqToSet(packages) \cup SeqToSet(dirs)

\* startup.py imports qgis.core; the template also appends to /logs/startup.log
StartupFacts == {"qgis", "log_write"}

Facts == HarnessFacts \cup ValidateFacts \cup StartupFacts

Dev(f) ==
    IF f \in ImportFacts THEN {"ImportError", "Error"}
    ELSE IF f \in RaiseFacts THEN {"raise"}
    ELSE IF f = "enmapbox" THEN {"gui", "other"}
    ELSE IF f = "report_write" THEN {"IOError_json", "IOError_txt"}
    ELSE {"bad"}

Healthy == [f \in Facts |-> "ok"]

\* the environments in which at most k facts of F deviate
RECURSIVE Envs(_, _)
Envs(F, k) ==
    IF k = 0 THEN {Healthy}
    ELSE LET E == Envs(F, k - 1)
         IN  E \cup UNION { UNION { {[e EXCEPT ![f] = v] : v \in Dev(f)} : f \in F } : e \in E }

---------------------------------------------------------------------------
(* The check routines: test_all.py lines 50-293.  Each operator gives the  *)
(* add_result calls the routine makes in environment e, in order, whether  *)
(* its routine-level handler ran (raised) and whether an error left the    *)
(* routine (escaped).  The results of the loops are named by the item     *)
(* they probe: "numpy" stands for the name "Library: numpy", an algorithm *)
(* id for "Algorithm: <id>", "prov:ogr" for "Provider: ogr" and a          *)
(* variable for "Environment: <variable>".                                 *)

Returned(calls) == [calls |-> calls, raised |-> FALSE, escaped |-> FALSE]

Escaped(calls) == [calls |-> calls, raised |-> TRUE, escaped |-> TRUE]

\* a mutation: the handler swallows the error without recording a result
Caught_silent(calls, test_name, message) ==
    [calls |-> calls, raised |-> TRUE, escaped |-> FALSE]

\* except Exception as e: results.add_result(<routine>, False, str(e))
Caught(calls, test_name, message) ==
    [calls |-> Append(calls, Call(test_name, FALSE, message)),
     raised |-> TRUE, escaped |-> FALSE]

test_qgis_installation(e) ==
    IF e["qgis"] # "ok" THEN Caught(<<>>, "QGIS Installation", e["qgis"])
    ELSE LET version == IF e["version"] = "ok"
                        THEN Call("QGIS Version 3.34 LTR", TRUE, "Version: 3.34")
                        ELSE Call("QGIS Version 3.34 LTR", FALSE, "Wrong version")
             init == Call("QGIS Initialization", TRUE, "")
         IN  IF e["init1"] # "ok" THEN Caught(<<version>>, "QGIS Installation", "init")
             ELSE IF e["exit1"] # "ok"
                  THEN Caught(<<version, init>>, "QGIS Installation", "exit")
                  ELSE Returned(<<version, init>>)

\* the loop of lines 93-99 over libs; only ImportError is handled
RECURSIVE import_libs(_, _, _)
import_libs(libs, e, done) ==
    IF libs = <<>> THEN Returned(done)
    ELSE LET lib == Head(libs)
         IN  IF e[lib] = "ok"
             THEN import_libs(Tail(libs), e, Append(done, Call(lib, TRUE, "v")))
             ELSE IF e[lib] = "ImportError"
             THEN import_libs(Tail(libs), e, Append(done, Call(lib, FALSE, "Not installed")))
             ELSE Escaped(done)

test_python_libraries(e) == import_libs(required_libs, e, <<>>)

\* lines 121-131: one dependency import, only ImportError is handled
dependency(e, lib, test_name) ==
    IF e[lib] = "ok" THEN Returned(<<Call(test_name, TRUE, "")>>)
    ELSE IF e[lib] = "ImportError"
    THEN Returned(<<Call(test_name, FALSE, "Not installed")>>)
    ELSE Escaped(<<>>)

test_enmapbox_installation(e) ==
    IF e["enmap_files"] # "ok"
    THEN Returned(<<Call("EnMAP-Box Files", FALSE, "Not found")>>)
    ELSE LET files == Call("EnMAP-Box Files", TRUE, "Found")
             complete == IF e["enmap_count"] = "ok"
                         THEN Call("EnMAP-Box Completeness", TRUE, "files")
                         ELSE Call("EnMAP-Box Completeness", FALSE, "Only files")
             pyqtgraph == dependency(e, "pyqtgraph", "EnMAP-Box Dependency: pyqtgraph")
             spectral == dependency(e, "spectral", "EnMAP-Box Dependency: spectral")
             import == IF e["enmapbox"] = "ok"
                       THEN Call("EnMAP-Box Import", TRUE, "Module loads")
                       ELSE IF e["enmapbox"] = "gui"
                       THEN Call("EnMAP-Box Import", TRUE, "Installed (GUI components need display)")
                       ELSE Call("EnMAP-Box Import", FALSE, "other")
         IN  IF pyqtgraph.escaped THEN Escaped(<<files, complete>>)
             ELSE IF spectral.escaped
                  THEN Escaped(<<files, complete>> \o pyqtgraph.calls)
                  ELSE Returned(<<files, complete>> \o pyqtgraph.calls
                                \o spectral.calls \o <<import>>)

test_processing_algorithms(e) ==
    IF e["qgis"] # "ok" THEN Caught(<<>>, "Processing Framework", e["qgis"])
    ELSE IF e["init4"] # "ok" THEN Caught(<<>>, "Processing Framework", "init")
    ELSE LET count == IF e["alg_count"] = "ok"
                      THEN Call("Processing Algorithms", TRUE, "algorithms available")
                      ELSE Call("Processing Algorithms", FALSE, "Only algorithms")
             algs == [i \in DOMAIN test_algs |->
                        IF e[test_algs[i]] = "ok"
                        THEN Call(test_algs[i], TRUE, "")
                        ELSE Call(test_algs[i], FALSE, "Not found")]
         IN  IF e["exit4"] # "ok"
             THEN Caught(<<count>> \o algs, "Processing Framework", "exit")
             ELSE Returned(<<count>> \o algs)

\* Line 191 imports only Qgis, and nothing binds QgsApplication at module
\* level (lines 55, 150 and 271 import it into other functions' locals), so
\* line 193 raises NameError whenever line 191 succeeds: the probes of lines
\* 197-234 are never reached.
test_data_io(e) ==
    IF e["qgis"] # "ok" THEN Caught(<<>>, "Data I/O", e["qgis"])
    ELSE Caught(<<>>, "Data I/O", "NameError")

test_docker_environment(e) ==
    LET workspace == Call("Workspace Directory", e["/workspace"] = "ok", "")
        write == IF e["/workspace"] = "ok" /\ e["ws_write"] = "ok"
                 THEN Call("Workspace Write Permission", TRUE, "")
                 ELSE Call("Workspace Write Permission", FALSE, "Cannot write to workspace")
        vars_ == [i \in DOMAIN env_vars |->
                    IF e[env_vars[i]] = "ok"
                    THEN Call(env_vars[i], TRUE, "value")
                    ELSE Call(env_vars[i], FALSE, "Not set")]
    IN  Returned(<<workspace, write>> \o vars_)

test_providers(e) ==
    IF e["qgis"] # "ok" THEN Caught(<<>>, "Providers", e["qgis"])
    ELSE IF e["init7"] # "ok" THEN Caught(<<>>, "Providers", "init")
    ELSE LET provs == [i \in DOMAIN essential |->
                         IF e[essential[i]] = "ok"
                         THEN Call(essential[i], TRUE, "")
                         ELSE Call(essential[i], FALSE, "Not available")]
             total == Call("Total Providers", TRUE, "providers available")
         IN  IF e["exit7"] # "ok"
             THEN Caught(Append(provs, total), "Providers", "exit")
             ELSE Returned(Append(provs, total))


---------------------------------------------------------------------------
(* generate_test_report and main: test_all.py lines 295-362 *)

NoReport == [json |-> <<>>, txt |-> <<>>]

\* a mutation: the report also counts the report files found on disk
ReportContent_counting_leftovers(R, now, disk) ==
    [test_date |-> now,
     total_tests |-> R.tests_run + Len(disk.json) + Len(disk.txt),
     passed |-> R.tests_passed,
     failed |-> R.tests_failed, success_rate |-> SuccessRate(R),
     failures |-> R.failures]

\* lines 297-305: the content both report files are rendered from; now is
\* datetime.now(), disk the report files of earlier runs (never read)
ReportContent(R, now, disk) ==
    [test_date |-> now, total_tests |-> R.tests_run, passed |-> R.tests_passed,
     failed |-> R.tests_failed, success_rate |-> SuccessRate(R),
     failures |-> R.failures]

\* a mutation: an I/O error while writing is swallowed
generate_test_report_swallow(R, now, disk, e) ==
    IF e["/workspace"] # "ok" \/ e["report_write"] # "ok"
    THEN [files |-> NoReport, raised |-> FALSE]
    ELSE [files |-> [json |-> <<ReportContent(R, now, disk)>>,
                     txt |-> <<ReportContent(R, now, disk)>>],
          raised |-> FALSE]

\* the files generate_test_report writes (<<>>: not written), and whether it
\* raised
generate_test_report(R, now, disk, e) ==
    IF R.tests_run = 0 THEN [files |-> NoReport, raised |-> TRUE]
    ELSE IF e["/workspace"] # "ok" \/ e["report_write"] = "IOError_json"
    THEN [files |-> NoReport, raised |-> TRUE]
    ELSE IF e["report_write"] = "IOError_txt"
    THEN [files |-> [json |-> <<ReportContent(R, now, disk)>>, txt |-> <<>>],
          raised |-> TRUE]
    ELSE [files |-> [json |-> <<ReportContent(R, now, disk)>>,
                     txt |-> <<ReportContent(R, now, disk)>>],
          raised |-> FALSE]

\* open(path, 'w'): a file that is written replaces the one on disk, a file
\* that is not written stays as it was
Overwrite(disk, files) ==
    [f \in DOMAIN disk |-> IF files[f] # <<>> THEN files[f] ELSE disk[f]]

\* a mutation: main exits 0 whatever print_summary returned
main_exit_code_zero(all_passed) == 0

\* lines 357-362: sys.exit(0) if all_passed else sys.exit(1)
main_exit_code(all_passed) == IF all_passed = "true" THEN 0 ELSE 1

\* an exception that reaches the top of a Python program ends it with status 1
UncaughtExit == 1

Routines ==
    <<"test_qgis_installation", "test_python_libraries", "test_enmapbox_installation",
      "test_processing_algorithms", "test_data_io", "test_docker_environment",
      "test_providers">>

\* lines 342-351: what main does after routine r returns
AfterRoutine(r) ==
    LET i == CHOOSE k \in DOMAIN Routines : Routines[k] = r
    IN  IF i < Len(Routines) THEN Routines[i + 1] ELSE "print_summary"

NoRoutine == [routine |-> "none", calls |-> <<>>, raised |-> FALSE, escaped |-> FALSE]

HarnessOnly ==
    UNCHANGED <<prog, env, quick, stdout, fs, dir0, existing_files, response, log,
                docker_available, run, argv, child>>

\* main calls routine r, which behaves as out
RunRoutine(r, out) ==
    /\ prog = "harness"
    /\ pc = r
    /\ results' = add_results(results, out.calls)
    /\ history' = history \o out.calls
    /\ last' = [routine |-> r, calls |-> out.calls,
                raised |-> out.raised, escaped |-> out.escaped]
    /\ IF out.escaped
       THEN pc' = "exit" /\ exit_code' = UncaughtExit
       ELSE pc' = AfterRoutine(r) /\ UNCHANGED exit_code
    /\ UNCHANGED <<summary, report>>
    /\ HarnessOnly

QgisInstallation == RunRoutine("test_qgis_installation", test_qgis_installation(env))

PythonLibraries == RunRoutine("test_python_libraries", test_python_libraries(env))

EnmapboxInstallation ==
    RunRoutine("test_enmapbox_installation", test_enmapbox_installation(env))

ProcessingAlgorithms ==
    RunRoutine("test_processing_algorithms", test_processing_algorithms(env))

DataIO == RunRoutine("test_data_io", test_data_io(env))

DockerEnvironment == RunRoutine("test_docker_environment", test_docker_environment(env))

Providers == RunRoutine("test_providers", test_providers(env))

\* line 351: all_passed = results.print_summary()
MainSummary ==
    /\ prog = "harness"
    /\ pc = "print_summary"
    /\ summary' = print_summary(results)
    /\ IF print_summary(results) = "raised"
       THEN pc' = "exit" /\ exit_code' = UncaughtExit
       ELSE pc' = "generate_test_report" /\ UNCHANGED exit_code
    /\ UNCHANGED <<results, history, last, report>>
    /\ HarnessOnly

\* line 354: generate_test_report(results)
MainReport ==
    /\ prog = "harness"
    /\ pc = "generate_test_report"
    /\ LET g == generate_test_report(results, run, report, env)
       IN  /\ report' = Overwrite(report, g.files)
           /\ IF g.raised
              THEN pc' = "exit" /\ exit_code' = UncaughtExit
              ELSE pc' = "sys.exit" /\ UNCHANGED exit_code
    /\ UNCHANGED <<results, history, last, summary>>
    /\ HarnessOnly

\* lines 357-362
MainExit ==
    /\ prog = "harness"
    /\ pc = "sys.exit"
    /\ pc' = "exit"
    /\ exit_code' = main_exit_code(summary)
    /\ UNCHANGED <<results, history, last, summary, report>>
    /\ HarnessOnly

\* the harness is started again in the same environment: the report files
\* of the run before are still on disk, everything else starts afresh
HarnessAgain ==
    /\ prog = "harness"
    /\ pc = "exit"
    /\ run = 1
    /\ run' = run + 1
    /\ pc' = Routines[1]
    /\ results' = TestResults
    /\ history' = <<>>
    /\ summary' = "none"
    /\ last' = NoRoutine
    /\ exit_code' = 0
    /\ UNCHANGED <<prog, env, report, quick, stdout, fs, dir0, existing_files, response,
                   log, docker_available, argv, child>>

---------------------------------------------------------------------------
(* A client of TestResults: any add_result calls, then the summary *)

Names == {"A", "B", "C"}

Messages == {"", "missing"}

ClientAddResult(test_name, passed, message) ==
    /\ prog = "agg"
    /\ pc = "client"
    /\ Len(history) < MaxCalls
    /\ results' = add_result(results, test_name, passed, message)
    /\ history' = Append(history, Call(test_name, passed, message))
    /\ UNCHANGED <<pc, summary, last, report, exit_code>>
    /\ HarnessOnly

ClientSummary ==
    /\ prog = "agg"
    /\ pc = "client"
    /\ summary' = print_summary(results)
    /\ pc' = "summarized"
    /\ UNCHANGED <<results, history, last, report, exit_code>>
    /\ HarnessOnly


---------------------------------------------------------------------------
(* scripts/validate_environment.py *)

Line(tag, check, arg) == [tag |-> tag, check |-> check, arg |-> arg]

quick_imports == <<"qgis", "numpy", "pandas">>

\* a mutation: the handler of quick_check reports success
quick_check_lenient(e) ==
    LET bad == {i \in DOMAIN quick_imports : e[quick_imports[i]] # "ok"}
    IN  IF bad = {} THEN [ret |-> "true", out |-> <<Line("OK", "quick", "")>>]
        ELSE LET i == CHOOSE k \in bad : \A j \in bad : k <= j
             IN  IF e[quick_imports[i]] = "ImportError"
                 THEN [ret |-> "true", out |-> <<Line("ERROR", "quick", quick_imports[i])>>]
                 ELSE [ret |-> "raised", out |-> <<>>]

\* lines 5-14: the value returned ("raised" when an error that is no
\* ImportError leaves the function) and the lines printed
quick_check(e) ==
    LET bad == {i \in DOMAIN quick_imports : e[quick_imports[i]] # "ok"}
    IN  IF bad = {} THEN [ret |-> "true", out |-> <<Line("OK", "quick", "")>>]
        ELSE LET i == CHOOSE k \in bad : \A j \in bad : k <= j
             IN  IF e[quick_imports[i]] = "ImportError"
                 THEN [ret |-> "false", out |-> <<Line("ERROR", "quick", quick_imports[i])>>]
                 ELSE [ret |-> "raised", out |-> <<>>]

\* lines 33-38: the package loop, only ImportError is handled
RECURSIVE import_packages(_, _, _)
import_packages(pkgs, e, out) ==
    IF pkgs = <<>> THEN [ret |-> "true", out |-> out]
    ELSE LET pkg == Head(pkgs)
         IN  IF e[pkg] = "ok"
             THEN import_packages(Tail(pkgs), e, Append(out, Line("OK", "package", pkg)))
             ELSE IF e[pkg] = "ImportError"
             THEN import_packages(Tail(pkgs), e, Append(out, Line("ERROR", "package", pkg)))
             ELSE [ret |-> "raised", out |-> out]

\* lines 16-40: the result of quick_check() is dropped, line 40 returns True
full_check(e) ==
    LET q == quick_check(e)
        d == [i \in DOMAIN dirs |->
                IF e[dirs[i]] = "ok" THEN Line("OK", "dir", dirs[i])
                ELSE Line("ERROR", "dir", dirs[i])]
    IN  IF q.ret = "raised" THEN q
        ELSE import_packages(packages, e, q.out \o d)

\* lines 47-50: sys.exit(0 if <check>() else 1)
validate_exit_code(ret) ==
    IF ret = "raised" THEN UncaughtExit ELSE IF ret = "true" THEN 0 ELSE 1

NotHarness == UNCHANGED <<results, history, summary, last, report>>

NotSetup ==
    UNCHANGED <<fs, dir0, existing_files, response, log, docker_available, run, argv, child>>

ValidateMain(r) ==
    /\ prog = "validate"
    /\ pc = "main"
    /\ stdout' = r.out
    /\ exit_code' = validate_exit_code(r.ret)
    /\ pc' = "exit"
    /\ UNCHANGED <<prog, env, quick>>
    /\ NotHarness
    /\ NotSetup

ValidateQuick == quick /\ ValidateMain(quick_check(env))

ValidateFull == ~quick /\ ValidateMain(full_check(env))

---------------------------------------------------------------------------
(* setup.py: main (lines 508-580) and the __main__ block (lines 582-589) *)

script_name == "setup.py"

\* what the operator may type at a prompt, as sequences of characters
Answers == {<<"y">>, <<"Y">>, <<"n">>, <<>>, <<"y", "e", "s">>}

LowerChar(c) ==
    CASE c = "Y" -> "y"
      [] c = "N" -> "n"
      [] c = "E" -> "e"
      [] c = "S" -> "s"
      [] OTHER -> c

\* str.lower()
Lower(s) == [i \in DOMAIN s |-> LowerChar(s[i])]

\* what input() can do: return a line, or raise EOFError or KeyboardInterrupt
Inputs ==
    {[got |-> "line", answer |-> a] : a \in Answers}
    \cup {[got |-> "EOFError", answer |-> <<>>],
          [got |-> "KeyboardInterrupt", answer |-> <<>>]}

Prompt(what, in) == [kind |-> "prompt", arg |-> what, got |-> in.got, answer |-> in.answer]

Write(path) == [kind |-> "write", arg |-> path, got |-> "", answer |-> <<>>]

Spawn(cmd) == [kind |-> "spawn", arg |-> cmd, got |-> "", answer |-> <<>>]

\* an exception leaves one of the calls of lines 533-540
Raise(exc) == [kind |-> "raise", arg |-> exc, got |-> "", answer |-> <<>>]

\* the functions main calls at lines 533-540, in order, each with the paths
\* it creates or writes and the entries they add to the target directory
CreateSteps ==
    << [name |-> "create_directory_structure",
        paths |-> <<"docker", "scripts", "config", "workspace/data",
                    "workspace/projects", "workspace/plugins", "logs", "tests",
                    ".github/workflows", "workspace/data/.gitkeep",
                    "workspace/projects/.gitkeep", "workspace/plugins/.gitkeep",
                    "logs/.gitkeep">>,
        tops |-> {"docker", "scripts", "config", "workspace", "logs", "tests", ".github"}],
       [name |-> "create_dockerfile",
        paths |-> <<"docker/Dockerfile">>, tops |-> {"docker"}],
       [name |-> "create_docker_compose",
        paths |-> <<"docker-compose.yml">>, tops |-> {"docker-compose.yml"}],
       [name |-> "create_requirements",
        paths |-> <<"docker/requirements.txt">>, tops |-> {"docker"}],
       [name |-> "create_scripts",
        paths |-> <<"scripts/install_enmap.sh", "scripts/startup.py",
                    "scripts/validate_environment.py", "tests/test_environment.py">>,
        tops |-> {"scripts", "tests"}],
       [name |-> "create_env_file", paths |-> <<".env">>, tops |-> {".env"}],
       [name |-> "create_gitignore", paths |-> <<".gitignore">>, tops |-> {".gitignore"}],
       [name |-> "create_readme", paths |-> <<"README.md">>, tops |-> {"README.md"}] >>

CreateNames == {CreateSteps[i].name : i \in DOMAIN CreateSteps}

StepOf(name) == CHOOSE i \in DOMAIN CreateSteps : CreateSteps[i].name = name

\* every path the bootstrapper declares
Declared == UNION {SeqToSet(CreateSteps[i].paths) : i \in DOMAIN CreateSteps}

\* lines 519-521: the entries of the directory other than the script itself
existing(dir) == {f \in dir : f # script_name}

\* a mutation: every answer lets the bootstrap go on
cancelled_never(resp) == FALSE

\* line 527: if response != 'y'
cancelled(resp) == resp # <<"y">>

\* a mutation: the __main__ block calls sys.exit(1) however main ended
setup_exit_code_always_failure(how) == 1

\* lines 582-589: the exit status when main ended by how: a return lets the
\* block fall off its end, KeyboardInterrupt is only reported, any other
\* exception reaches sys.exit(1)
setup_exit_code(how) == IF how \in {"return", "KeyboardInterrupt"} THEN 0 ELSE 1

\* lines 465-486: the value check_docker returns
check_docker(outcome) == outcome = "found"

NotBootstrap == UNCHANGED <<prog, env, quick, stdout, argv, child>>

\* lines 515-523
SetupStart ==
    /\ prog = "setup"
    /\ pc = "main"
    /\ existing_files' = existing(fs)
    /\ pc' = IF existing(fs) # {} THEN "input_continue" ELSE CreateSteps[1].name
    /\ UNCHANGED <<fs, dir0, response, log, docker_available, run, exit_code>>
    /\ NotBootstrap
    /\ NotHarness

\* lines 526-529, and lines 585-589 when input() raises
SetupContinue(in) ==
    /\ prog = "setup"
    /\ pc = "input_continue"
    /\ log' = Append(log, Prompt("continue", in))
    /\ IF in.got = "line"
       THEN /\ response' = Lower(in.answer)
            /\ IF cancelled(Lower(in.answer))
               THEN pc' = "exit" /\ exit_code' = setup_exit_code("return")
               ELSE pc' = CreateSteps[1].name /\ UNCHANGED exit_code
       ELSE /\ UNCHANGED response
            /\ pc' = "exit"
            /\ exit_code' = setup_exit_code(in.got)
    /\ UNCHANGED <<fs, dir0, existing_files, docker_available, run>>
    /\ NotBootstrap
    /\ NotHarness

\* one of the calls of lines 533-540: it completes, or raises OSError
\* (lines 578-580, then 587-589) or KeyboardInterrupt (lines 585-586)
SetupCreate(outcome) ==
    /\ prog = "setup"
    /\ pc \in CreateNames
    /\ LET i == StepOf(pc)
       IN  CASE outcome = "ok" ->
                  /\ log' = log \o [k \in DOMAIN CreateSteps[i].paths |->
                                      Write(CreateSteps[i].paths[k])]
                  /\ fs' = fs \cup CreateSteps[i].tops
                  /\ pc' = IF i < Len(CreateSteps) THEN CreateSteps[i + 1].name
                           ELSE "check_docker"
                  /\ UNCHANGED exit_code
             [] outcome = "OSError" ->
                  /\ pc' = "exit" /\ exit_code' = setup_exit_code(outcome)
                  /\ log' = Append(log, Raise(outcome))
                  /\ UNCHANGED fs
             [] outcome = "KeyboardInterrupt" ->
                  /\ pc' = "exit" /\ exit_code' = setup_exit_code(outcome)
                  /\ log' = Append(log, Raise(outcome))
                  /\ UNCHANGED fs
    /\ UNCHANGED <<dir0, existing_files, response, docker_available, run>>
    /\ NotBootstrap
    /\ NotHarness

\* line 543; docker --version runs and exits 0 ("found") or not ("nonzero"),
\* or cannot be started ("FileNotFoundError")
SetupCheckDocker(outcome) ==
    /\ prog = "setup"
    /\ pc = "check_docker"
    /\ docker_available' = check_docker(outcome)
    /\ log' = IF outcome = "FileNotFoundError" THEN log
              ELSE Append(log, Spawn("docker --version"))
    /\ pc' = "git"
    /\ UNCHANGED <<fs, dir0, existing_files, response, run, exit_code>>
    /\ NotBootstrap
    /\ NotHarness

\* lines 546-553 and the branch of line 565
SetupGit(installed) ==
    /\ prog = "setup"
    /\ pc = "git"
    /\ IF installed
       THEN /\ log' = log \o <<Spawn("git init"), Spawn("git add ."), Spawn("git commit")>>
            /\ fs' = fs \cup {".git"}
       ELSE UNCHANGED <<log, fs>>
    /\ pc' = IF docker_available THEN "input_build" ELSE "return"
    /\ UNCHANGED <<dir0, existing_files, response, docker_available, run, exit_code>>
    /\ NotBootstrap
    /\ NotHarness

\* lines 566-573, and lines 578-589 when input() raises
SetupBuild(in) ==
    /\ prog = "setup"
    /\ pc = "input_build"
    /\ IF in.got = "line"
       THEN /\ response' = Lower(in.answer)
            /\ log' = IF Lower(in.answer) = <<"y">>
                      THEN log \o <<Prompt("build", in), Spawn("docker-compose build")>>
                      ELSE Append(log, Prompt("build", in))
            /\ exit_code' = setup_exit_code("return")
       ELSE /\ UNCHANGED response
            /\ log' = Append(log, Prompt("build", in))
            /\ exit_code' = setup_exit_code(in.got)
    /\ pc' = "exit"
    /\ UNCHANGED <<fs, dir0, existing_files, docker_available, run>>
    /\ NotBootstrap
    /\ NotHarness

\* lines 575-576: main returns, the process ends with status 0
SetupReturn ==
    /\ prog = "setup"
    /\ pc = "return"
    /\ pc' = "exit"
    /\ exit_code' = setup_exit_code("return")
    /\ UNCHANGED <<fs, dir0, existing_files, response, log, docker_available, run>>
    /\ NotBootstrap
    /\ NotHarness

\* the operator starts setup.py again in the same directory
SetupAgain ==
    /\ prog = "setup"
    /\ pc = "exit"
    /\ run < MaxRuns
    /\ run' = run + 1
    /\ pc' = "main"
    /\ existing_files' = {}
    /\ response' = <<>>
    /\ log' = <<>>
    /\ docker_available' = FALSE
    /\ exit_code' = 0
    /\ dir0' = fs
    /\ UNCHANGED fs
    /\ NotBootstrap
    /\ NotHarness

---------------------------------------------------------------------------
(* The container entry point: scripts/startup.py, and the startup_py      *)
(* template of setup.py (lines 229-263) that create_scripts writes over it *)

StartupPrograms == {"startup", "startup_template"}

\* command lines the entry point may be given (the image's CMD is "qgis")
Argvs == {<<>>, <<"qgis">>, <<"false">>}

\* exit statuses of the command
ReturnCodes == {0, 1, 2}

NotStartup ==
    UNCHANGED <<prog, env, quick, fs, dir0, existing_files, response, log,
                docker_available, run, argv>>

\* a mutation: the template ends with sys.exit(result.returncode)
template_exit_code_relayed(returncode) == returncode

\* template lines 257-262: the result of subprocess.run(cmd) is dropped and
\* the script runs off its end
template_exit_code(returncode) == 0

\* template lines 237-261 up to the branch on sys.argv
TemplateStart ==
    /\ prog = "startup_template"
    /\ pc = "main"
    /\ IF env["qgis"] = "ImportError"
       THEN /\ stdout' = <<Line("ERROR", "startup", "qgis")>>
            /\ pc' = "exit" /\ exit_code' = 1
       ELSE IF env["qgis"] = "Error" \/ env["log_write"] # "ok"
       THEN /\ stdout' = <<>>
            /\ pc' = "exit" /\ exit_code' = UncaughtExit
       ELSE IF argv # <<>>
       THEN /\ stdout' = <<Line("OK", "startup", "qgis")>>
            /\ pc' = "subprocess.run" /\ UNCHANGED exit_code
       ELSE /\ stdout' = <<Line("OK", "startup", "qgis"), Line("OK", "startup", "ready")>>
            /\ pc' = "exit" /\ exit_code' = 0
    /\ UNCHANGED child
    /\ NotStartup
    /\ NotHarness

\* what subprocess.run(cmd) does: the command ends with a status
\* (<<returncode>>), or cannot be started (<<>>, FileNotFoundError)
Completions == {<<>>} \cup {<<rc>> : rc \in ReturnCodes}

\* template line 259
TemplateRun(outcome) ==
    /\ prog = "startup_template"
    /\ pc = "subprocess.run"
    /\ IF outcome # <<>>
       THEN child' = outcome /\ exit_code' = template_exit_code(outcome[1])
       ELSE UNCHANGED child /\ exit_code' = UncaughtExit
    /\ pc' = "exit"
    /\ UNCHANGED stdout
    /\ NotStartup
    /\ NotHarness

\* scripts/startup.py lines 9-27: sys.argv is never read
ScriptStart ==
    /\ prog = "startup"
    /\ pc = "main"
    /\ IF env["qgis"] = "Error"
       THEN stdout' = <<>> /\ pc' = "exit" /\ exit_code' = UncaughtExit
       ELSE /\ stdout' = <<IF env["qgis"] = "ok" THEN Line("OK", "startup", "qgis")
                           ELSE Line("ERROR", "startup", "qgis"),
                           Line("OK", "startup", "ready")>>
            /\ pc' = "while True" /\ UNCHANGED exit_code
    /\ UNCHANGED child
    /\ NotStartup
    /\ NotHarness

\* scripts/startup.py lines 30-31: while True: time.sleep(3600)
ScriptSleep ==
    /\ prog = "startup"
    /\ pc = "while True"
    /\ pc' = "time.sleep"
    /\ UNCHANGED <<stdout, exit_code, child>>
    /\ NotStartup
    /\ NotHarness

\* time.sleep(3600) returns and the loop goes round
ScriptWake ==
    /\ prog = "startup"
    /\ pc = "time.sleep"
    /\ pc' = "while True"
    /\ UNCHANGED <<stdout, exit_code, child>>
    /\ NotStartup
    /\ NotHarness

---------------------------------------------------------------------------
(* The specification *)

Programs == {"agg", "harness", "validate", "setup"} \cup StartupPrograms

\* target directories setup.py may be started in
InitialDirs == {{}, {script_name}, {"data.csv"}, {script_name, "data.csv"}}

Init ==
    /\ prog \in Programs
    /\ pc = CASE prog = "agg" -> "client"
              [] prog = "harness" -> Routines[1]
              [] OTHER -> "main"
    /\ env \in CASE prog = "harness" -> Envs(HarnessFacts, MaxFaults)
                 [] prog = "validate" -> Envs(ValidateFacts, MaxFaults)
                 [] prog \in StartupPrograms -> Envs(StartupFacts, MaxFaults)
                 [] OTHER -> {Healthy}
    /\ results = TestResults
    /\ history = <<>>
    /\ summary = "none"
    /\ last = NoRoutine
    /\ report = NoReport
    /\ exit_code = 0
    /\ quick \in IF prog = "validate" THEN BOOLEAN ELSE {FALSE}
    /\ stdout = <<>>
    /\ fs \in IF prog = "setup" THEN InitialDirs ELSE {{}}
    /\ dir0 = fs
    /\ existing_files = {}
    /\ response = <<>>
    /\ log = <<>>
    /\ docker_available = FALSE
    /\ run = 1
    /\ argv \in IF prog \in StartupPrograms THEN Argvs ELSE {<<>>}
    /\ child = <<>>

Next ==
    \/ \E n \in Names, p \in BOOLEAN, m \in Messages : ClientAddResult(n, p, m)
    \/ ClientSummary
    \/ QgisInstallation
    \/ PythonLibraries
    \/ EnmapboxInstallation
    \/ ProcessingAlgorithms
    \/ DataIO
    \/ DockerEnvironment
    \/ Providers
    \/ MainSummary
    \/ MainReport
    \/ MainExit
    \/ HarnessAgain
    \/ ValidateQuick
    \/ ValidateFull
    \/ SetupStart
    \/ \E in \in Inputs : SetupContinue(in)
    \/ \E o \in {"ok", "OSError", "KeyboardInterrupt"} : SetupCreate(o)
    \/ \E o \in {"found", "nonzero", "FileNotFoundError"} : SetupCheckDocker(o)
    \/ \E g \in BOOLEAN : SetupGit(g)
    \/ \E in \in Inputs : SetupBuild(in)
    \/ SetupReturn
    \/ SetupAgain
    \/ TemplateStart
    \/ \E o \in Completions : TemplateRun(o)
    \/ ScriptStart
    \/ ScriptSleep
    \/ ScriptWake

Spec == Init /\ [][Next]_vars

\* a running process keeps taking steps
FairSpec == Spec /\ WF_vars(Next)


---------------------------------------------------------------------------
(* Properties *)

Exited == pc = "exit"

FailingCalls(h) == SelectSeq(h, LAMBDA c : ~c.passed)

\* C1: after any sequence of add_result calls on a fresh aggregator,
\* tests_run = tests_passed + tests_failed and tests_run is the number of
\* calls made.
C1_CountsAgree ==
    /\ results.tests_run = results.tests_passed + results.tests_failed
    /\ results.tests_run = Len(history)

\* the client has made three calls, some passing and some failing
C1_Witness ==
    /\ prog = "agg"
    /\ Len(history) = 3
    /\ results.tests_passed >= 1
    /\ results.tests_failed >= 1

\* C2: for every sequence of add_result calls, the empty one included,
\* print_summary completes and returns true exactly when tests_failed = 0.
C2_SummaryAlwaysReturns ==
    summary # "none" =>
        /\ summary # "raised"
        /\ (summary = "true") <=> (results.tests_failed = 0)

Written(f) == report[f] # <<>> /\ report[f][1].test_date = run

\* the run reached the last statement of main
RanToCompletion ==
    /\ ~last.escaped
    /\ last.routine = Routines[Len(Routines)]
    /\ summary \in {"true", "false"}
    /\ Written("json") /\ Written("txt")

HandlerRoutines ==
    {"test_qgis_installation", "test_processing_algorithms", "test_data_io",
     "test_providers"}

\* the name under which a routine's handler records the error
RoutineError(r) ==
    CASE r = "test_qgis_installation" -> "QGIS Installation"
      [] r = "test_processing_algorithms" -> "Processing Framework"
      [] r = "test_data_io" -> "Data I/O"
      [] r = "test_providers" -> "Providers"

\* main did not stop at the routine that ran last
MainWentOn == Exited => (last.routine = Routines[Len(Routines)] /\ summary # "none")

\* C4 as claimed: a routine with a routine-level handler in which an error
\* is raised contributes exactly one result in total, a failing one, the
\* error does not leave the routine and main goes on.
C4_ExactlyOneResult ==
    (last.routine \in HandlerRoutines /\ last.raised) =>
        /\ Len(last.calls) = 1
        /\ ~last.calls[1].passed
        /\ ~last.escaped
        /\ MainWentOn

\* C4 as amended: the handler appends exactly one failing result, under the
\* routine's own name, after the results the routine's probes appended
\* before the error; the error does not leave the routine and main goes on.
C4_OneFailingResultPerError ==
    (last.routine \in HandlerRoutines /\ last.raised) =>
        LET n == Len(last.calls)
        IN  /\ n >= 1
            /\ last.calls[n] .test = RoutineError(last.routine)
            /\ ~last.calls[n].passed
            /\ \A i \in 1..(n - 1) : last.calls[i].test # RoutineError(last.routine)
            /\ results.failures # <<>>
            /\ results.failures[Len(results.failures)].test = RoutineError(last.routine)
            /\ ~last.escaped
            /\ MainWentOn

\* test_qgis_installation raised after its version probe had reported
C4_Witness ==
    /\ last.routine = "test_qgis_installation"
    /\ last.raised
    /\ Len(last.calls) = 2
    /\ pc = "test_python_libraries"

\* the results a routine's probes report when all of them run
ProbeNames(r) ==
    CASE r = "test_qgis_installation" -> {"QGIS Version 3.34 LTR", "QGIS Initialization"}
      [] r = "test_python_libraries" -> SeqToSet(required_libs)
      [] r = "test_enmapbox_installation" ->
            {"EnMAP-Box Files", "EnMAP-Box Completeness",
             "EnMAP-Box Dependency: pyqtgraph", "EnMAP-Box Dependency: spectral",
             "EnMAP-Box Import"}
      [] r = "test_processing_algorithms" ->
            {"Processing Algorithms"} \cup SeqToSet(test_algs)
      [] r = "test_data_io" ->
            {"Create Memory Layer", "Add Features", "Write GeoJSON", "Read GeoJSON",
             "Write ESRI Shapefile", "Write GPKG"}
      [] r = "test_docker_environment" ->
            {"Workspace Directory", "Workspace Write Permission"} \cup SeqToSet(env_vars)
      [] r = "test_providers" -> SeqToSet(essential) \cup {"Total Providers"}
      [] OTHER -> {}

\* C5: in a routine in which no error is raised, every probe appends exactly
\* one result whatever the outcome of the probes before it: a failing probe
\* never keeps a sibling probe from running.
C5_EveryProbeReports ==
    ~last.raised =>
        \A name \in ProbeNames(last.routine) :
            Cardinality({i \in DOMAIN last.calls : last.calls[i].test = name}) = 1

\* C6 as claimed: every add_result call, passing or failing, leaves one
\* entry in the retained sequence, in call order.
C6_EveryCallRetained ==
    /\ Len(results.failures) = Len(history)
    /\ \A i \in DOMAIN results.failures : results.failures[i].test = history[i].test

\* C6 as amended: every failing call leaves its name and message in the
\* failures sequence, in call order and without de-duplication; a passing
\* call leaves no entry.
C6_FailingCallsRetained ==
    LET F == FailingCalls(history)
    IN  results.failures = [i \in DOMAIN F |-> [test |-> F[i].test, message |-> F[i].message]]

\* two failing calls with one name, and a passing call between them
C6_Witness ==
    /\ prog = "agg"
    /\ Len(history) = 3
    /\ ~history[1].passed /\ history[2].passed /\ ~history[3].passed
    /\ history[1].test = history[3].test
    /\ Len(results.failures) = 2

Detected == \E i \in DOMAIN stdout : stdout[i].tag = "ERROR"

\* C7: in full mode validate_environment.py exits 0 only if no check
\* detected a failure, and 1 if any check detected one.
C7_FullExitReflectsFailures ==
    (prog = "validate" /\ ~quick /\ Exited) =>
        /\ exit_code = 0 => ~Detected
        /\ Detected => exit_code = 1

\* C8: with --quick only qgis.core, numpy and pandas are imported, and the
\* exit code is 0 iff all three imports succeed and 1 otherwise.
C8_QuickExit ==
    (prog = "validate" /\ quick /\ Exited) =>
        /\ (exit_code = 0) <=> (\A m \in {"qgis", "numpy", "pandas"} : env[m] = "ok")
        /\ exit_code \in {0, 1}
        /\ \A i \in DOMAIN stdout : stdout[i].check = "quick"
        /\ Len(stdout) <= 1

\* qgis.core and numpy load, pandas is missing, the quick run exits 1
C8_Witness ==
    /\ prog = "validate" /\ quick /\ Exited
    /\ env["qgis"] = "ok" /\ env["numpy"] = "ok" /\ env["pandas"] = "ImportError"
    /\ exit_code = 1
    /\ Detected

ContinuePrompts == {i \in DOMAIN log : log[i].kind = "prompt" /\ log[i].arg = "continue"}

Writes == {i \in DOMAIN log : log[i].kind = "write"}

Spawns == {i \in DOMAIN log : log[i].kind = "spawn"}

\* the directory held something other than the script when the run began
NonEmpty0 == dir0 \ {script_name} # {}

\* main is past the calls of lines 533-540
CreatedAll == pc \in {"check_docker", "git", "input_build", "return"}

\* the confirmation gate, with Yes(a) saying which typed answers confirm
Gate(Yes(_)) ==
    prog = "setup" =>
        /\ Cardinality(ContinuePrompts) <= 1
        /\ ~NonEmpty0 => ContinuePrompts = {}
        /\ \A w \in Writes :
             NonEmpty0 => \E p \in ContinuePrompts :
                             p < w /\ log[p].got = "line" /\ Yes(log[p].answer)
        /\ CreatedAll => Declared \subseteq {log[w].arg : w \in Writes}

\* C9 as claimed: nothing is created before the gate is resolved; an empty
\* directory is filled without a prompt, a non-empty one after exactly one
\* prompt and only if the answer is 'y'.
C9_WritesOnlyAfterY == Gate(LAMBDA a : a = <<"y">>)

\* C9 as amended: the same, with the answer compared after lower-casing
\* (so 'Y' confirms too) and with the script itself not counted as content.
C9_WritesOnlyAfterLowerY == Gate(LAMBDA a : Lower(a) = <<"y">>)

\* a second run, on the directory a first run filled, asked and then wrote everything
C9_Witness ==
    /\ prog = "setup"
    /\ run = 2
    /\ {"docker", "scripts", "README.md"} \subseteq dir0
    /\ Cardinality(ContinuePrompts) = 1
    /\ CreatedAll

\* the decline of the gate, with No(a) saying which typed answers decline
Decline(No(_)) ==
    prog = "setup" =>
        \A p \in ContinuePrompts :
            (log[p].got = "line" /\ No(log[p].answer)) =>
                /\ Exited
                /\ exit_code = 0
                /\ Writes = {}
                /\ Spawns = {}
                /\ fs = dir0

\* C10 as claimed: any answer other than 'y' ends the run with exit code 0,
\* the directory unchanged and no subprocess started.
C10_DeclineLeavesUnchanged == Decline(LAMBDA a : a # <<"y">>)

\* C10 as amended: any answer whose lower-case form is not 'y'.
C10_LowerDeclineLeavesUnchanged == Decline(LAMBDA a : Lower(a) # <<"y">>)

\* the operator answered n on a directory a first run had filled
C10_Witness ==
    /\ prog = "setup"
    /\ run = 2
    /\ "docker" \in dir0
    /\ \E p \in ContinuePrompts : log[p].answer = <<"n">>
    /\ Exited


\* an error or an interrupt reached the top level of the program that ran:
\* it left a routine or the report writing of test_all.py, it left
\* quick_check or full_check, or it left main of setup.py
TopLevelFailure ==
    \/ prog = "harness" /\ Exited /\ (last.escaped \/ summary = "raised"
                                      \/ (summary # "none" /\ ~Written("txt")))
    \/ prog = "validate" /\ Exited
         /\ (IF quick THEN quick_check(env) ELSE full_check(env)).ret = "raised"
    \/ prog = "setup" /\ Exited
         /\ \E i \in DOMAIN log :
               \/ log[i].kind = "raise"
               \/ log[i].kind = "prompt" /\ log[i].got # "line"

\* C11: a failure that reaches the top level of a program (an I/O error
\* while writing the report or the bootstrap files, a keyboard interrupt)
\* ends the process with a non-zero exit code, never with exit code 0.
C11_TopLevelFailureExitsNonZero == TopLevelFailure => exit_code # 0


\* the entry point is inside its keep-alive loop
KeepsAlive == pc \in {"while True", "time.sleep"}

\* C12: given trailing arguments, the entry point runs them as one blocking
\* subprocess and its own exit code is the exit code of that subprocess.
C12_RelaysExitCode ==
    (prog \in StartupPrograms /\ argv # <<>>) =>
        /\ (Exited /\ child # <<>>) => exit_code = child[1]
        /\ KeepsAlive => child # <<>>

\* C13: without arguments the entry point prints its ready message and
\* then returns: the process eventually terminates.
C13_NoArgumentsTerminates ==
    [](((prog \in StartupPrograms /\ argv = <<>>) /\ pc = "main") => <>Exited)


\* the last check routine of main has returned and the summary is printed
RoutinesDone ==
    /\ last.routine = Routines[Len(Routines)]
    /\ ~last.escaped
    /\ summary \in {"true", "false"}

\* the report files can be written in this environment
Writable == env["/workspace"] = "ok" /\ env["report_write"] = "ok"

\* C14 as claimed: in every run of the harness both report files are
\* written after the last check routine and before the process exits.
C14_ReportsEveryRun ==
    prog = "harness" =>
        /\ \A f \in {"json", "txt"} : Written(f) => RoutinesDone
        /\ Exited => (Written("json") /\ Written("txt"))

\* C14 as amended: a report file is written only after the last check
\* routine has returned; a run in which no error leaves a routine and the
\* files can be written has written both, with the counts of this run,
\* before it reaches sys.exit, whether or not a result failed; a run that
\* exits without both files is one where an error left a routine or the
\* report writing, and it exits with code 1.
C14_ReportsBeforeExit ==
    prog = "harness" =>
        /\ \A f \in {"json", "txt"} : Written(f) => RoutinesDone
        /\ pc = "sys.exit" =>
              \A f \in {"json", "txt"} :
                  Written(f) /\ report[f][1] = ReportContent(results, run, NoReport)
        /\ (Exited /\ ~last.escaped /\ Writable) => (Written("json") /\ Written("txt"))
        /\ (Exited /\ ~(Written("json") /\ Written("txt"))) =>
              (exit_code = 1 /\ (last.escaped \/ ~Writable))

\* a run with a failed result that wrote both report files and then exited
C14_Witness ==
    /\ prog = "harness" /\ Exited /\ run = 1
    /\ RoutinesDone
    /\ Written("json") /\ Written("txt")
    /\ results.tests_failed > 0
    /\ exit_code = 1


\* two reports agree in everything but the timestamp field
SameButDate(a, b) == [a EXCEPT !.test_date = 0] = [b EXCEPT !.test_date = 0]

\* the second run writes its report over the files of the first run
SecondReport == prog = "harness" /\ run = 2 /\ pc = "generate_test_report"

DivisorNonZero ==
    prog = "harness" =>
        /\ pc \in {"print_summary", "generate_test_report"} => results.tests_run >= 1
        /\ summary # "raised"

\* C16: in every run of main, whatever the probes find, each of the seven
\* check routines adds at least one result (test_python_libraries always 8,
\* test_docker_environment always 4), so tests_run is at least 1 when the
\* success rate is computed.
C16_EveryRoutineAddsResults ==
    prog = "harness" =>
        /\ last.routine # "none" => Len(last.calls) >= 1
        /\ last.routine = "test_python_libraries" => Len(last.calls) = 8
        /\ last.routine = "test_docker_environment" => Len(last.calls) = 4
        /\ Exited => last.routine = Routines[Len(Routines)]
        /\ DivisorNonZero


\* the number of failing calls among the first i add_result calls
Rank(i) == Cardinality({j \in 1..i : ~history[j].passed})

\* C17: after any sequence of add_result calls the failures list has
\* exactly tests_failed entries, the k-th of them holding the name and the
\* message of the k-th failing call; a passing call leaves the list as it is.
C17_FailuresListInCallOrder ==
    /\ [](/\ Len(results.failures) = results.tests_failed
          /\ results.tests_failed = Rank(Len(history))
          /\ \A i \in DOMAIN history :
                ~history[i].passed =>
                    /\ results.failures[Rank(i)].test = history[i].test
                    /\ results.failures[Rank(i)].message = history[i].message)
    /\ [][(Len(history') = Len(history) + 1 /\ history'[Len(history')].passed)
              => results'.failures = results.failures]_vars

\* failure, pass, failure under two names: the list holds the two failures
\* in the order of their calls
C17_Witness ==
    /\ prog = "agg"
    /\ Len(history) = 3
    /\ ~history[1].passed /\ history[2].passed /\ ~history[3].passed
    /\ history[1].test # history[3].test
    /\ results.failures = <<[test |-> history[1].test, message |-> history[1].message],
                            [test |-> history[3].test, message |-> history[3].message]>>

============================================================================
